---- MODULE Spec2Model ----
(***************************************************************************)
(* A model of pyani_db.py: the SQLite3 store of genomes, runs, run/genome  *)
(* associations and pairwise comparisons.  Every function of the module    *)
(* opens a connection, executes one statement (create_db: two scripts)     *)
(* inside "with conn:" and returns; each is one action here.  The SQL      *)
(* statements are operators that compute, from the current tables, what    *)
(* SQLite does with them: the rows after the statement, the row id it      *)
(* assigned, or the constraint it failed on.                               *)
(***************************************************************************)
EXTENDS Integers, Sequences, FiniteSets, TLC

VARIABLES genomes,          \* rows of table genomes
          runs,             \* rows of table runs
          runs_genomes,     \* rows of table runs_genomes
          comparisons,      \* rows of table comparisons
          sqlite_sequence,  \* AUTOINCREMENT counters of genomes and runs
          lastOp,           \* the call that produced this state
          result,           \* what that call returned or raised
          associated,       \* history: (run_id, genome_id) of successful add_genome_to_run
          issued            \* history: genome_ids returned by add_genome, in call order

vars == <<genomes, runs, runs_genomes, comparisons, sqlite_sequence,
          lastOp, result, associated, issued>>

tables == <<genomes, runs, runs_genomes, comparisons>>

---------------------------------------------------------------------------
(* Bounds of the model *)

MaxGenomes == 3
MaxRuns == 2
MaxComparisons == 2
MaxAssociations == 3

(* Python's None; bound to a statement parameter it is SQL NULL *)
None == "None"

(* Input values *)
Hashes == {"abc123", "def456"}
Paths == {"/data/g1.fasta", "/data/g2.fasta"}
Descriptions == {"genome one", "dup"}
Methods == {"ANIm", "ANIb"}
Cmdlines == {"pyani anim"}
Dates == {"2017-01-01"}
Statuses == {"started"}
GenomeIds == {1, 2}
RunIds == {1, 2}
QueryIds == {1, 2}
SubjectIds == {1, 2}
Programs == {"nucmer"}
Versions == {"3.1"}
Fragsizes == {None, "500", "1020"}
Maxmatches == {None, "maxmatch"}

---------------------------------------------------------------------------
(* SQLite semantics the statements rely on *)

Max(S) == CHOOSE m \in S : \A x \in S : x <= m

(* "a = ?" in a WHERE clause or a UNIQUE index: a comparison with NULL is
   never true *)
SqlEq(a, b) == a # None /\ b # None /\ a = b

(* INTEGER PRIMARY KEY AUTOINCREMENT: one more than the largest row id the
   table has ever held *)
AUTOINCREMENT(seq, ids) == Max({seq} \cup ids) + 1

(* sqlite3.connect(path) issues no PRAGMA foreign_keys = ON, and SQLite does
   not enforce FOREIGN KEY clauses without it *)
foreign_keys == FALSE

(* What a call returned (status "returned") or raised *)
Returned(v) == [status |-> "returned", none |-> FALSE, value |-> v]
ReturnedNone == [status |-> "returned", none |-> TRUE, value |-> None]
Raised(e) == [status |-> e, none |-> TRUE, value |-> None]

RECURSIVE RowsById(_)
(* the rows of genomes in row id order, as fetchall() lists them *)
RowsById(S) ==
    IF S = {} THEN <<>>
    ELSE LET m == CHOOSE r \in S : \A q \in S : r.genome_id <= q.genome_id
         IN  <<m>> \o RowsById(S \ {m})

RECURSIVE IndexScan(_)
(* the genome_id of every row of a set of runs_genomes rows, in the order of
   the primary key's index *)
IndexScan(S) ==
    IF S = {} THEN <<>>
    ELSE LET m == CHOOSE r \in S : \A q \in S :
                      \/ r.genome_id < q.genome_id
                      \/ r.genome_id = q.genome_id /\ r.rowid <= q.rowid
         IN  <<m.genome_id>> \o IndexScan(S \ {m})

---------------------------------------------------------------------------
(* Schema constraints, SQL_CREATEDB and SQL_INDEXGENOMEHASH *)

(* Mutant: the unique index is on hash alone *)
genomehash_unique_index(rows, hash, path) ==
    \A r \in rows : ~SqlEq(r.hash, hash)

(* CREATE UNIQUE INDEX genomehashpath_index ON genomes (hash, path): TRUE when
   a row with this hash and path may be inserted *)
genomehashpath_index(rows, hash, path) ==
    \A r \in rows : ~(SqlEq(r.hash, hash) /\ SqlEq(r.path, path))

(* Mutant: runs_genomes has no primary key *)
runs_genomes_no_pk(rows, run_id, genome_id) == TRUE

(* runs_genomes: PRIMARY KEY (run_id, genome_id) *)
runs_genomes_pk(rows, run_id, genome_id) ==
    \A r \in rows : ~(r.run_id = run_id /\ r.genome_id = genome_id)

(* runs_genomes: FOREIGN KEY(run_id) REFERENCES runs(run_id), FOREIGN
   KEY(genome_id) REFERENCES genomes(genome_id), checked only when foreign
   keys are enforced *)
runs_genomes_fk(run_id, genome_id) ==
    foreign_keys =>
        /\ \E r \in runs : r.run_id = run_id
        /\ \E g \in genomes : g.genome_id = genome_id

(* comparisons: PRIMARY KEY (query_id, subject_id) *)
comparisons_pk(rows, query_id, subject_id) ==
    \A r \in rows : ~(r.query_id = query_id /\ r.subject_id = subject_id)

(* Mutant: the tables are emptied with DELETE FROM, which keeps the
   AUTOINCREMENT counters *)
SQL_CREATEDB_delete_from ==
    [genomes |-> {}, runs |-> {}, runs_genomes |-> {}, comparisons |-> {},
     sqlite_sequence |-> sqlite_sequence]

(* The four tables after DROP TABLE IF EXISTS / CREATE TABLE: empty, and the
   AUTOINCREMENT counters of the dropped tables are gone *)
SQL_CREATEDB ==
    [genomes |-> {}, runs |-> {}, runs_genomes |-> {}, comparisons |-> {},
     sqlite_sequence |-> [genomes |-> 0, runs |-> 0]]

---------------------------------------------------------------------------
(* The statements *)

(* INSERT INTO runs (method, cmdline, date, status) VALUES (?, ?, ?, ?) *)
SQL_ADDRUN(method, cmdline, date, status) ==
    LET id == AUTOINCREMENT(sqlite_sequence.runs, {r.run_id : r \in runs})
    IN  [ok |-> TRUE,
         rows |-> runs \cup {[run_id |-> id, method |-> method,
                              cmdline |-> cmdline, date |-> date,
                              status |-> status]},
         seq |-> id,
         lastrowid |-> id]

(* Mutant: a rejected row still consumes its genome_id *)
SQL_ADDGENOME_gap(hash, path, desc) ==
    LET id == AUTOINCREMENT(sqlite_sequence.genomes,
                            {r.genome_id : r \in genomes})
    IN  IF genomehashpath_index(genomes, hash, path)
        THEN [ok |-> TRUE,
              rows |-> genomes \cup {[genome_id |-> id, hash |-> hash,
                                      path |-> path, description |-> desc]},
              seq |-> id,
              lastrowid |-> id]
        ELSE [ok |-> FALSE, rows |-> genomes, seq |-> id, lastrowid |-> 0]

(* Mutant: INSERT OR REPLACE, which deletes the row that has the hash and
   path before it inserts *)
SQL_ADDGENOME_or_replace(hash, path, desc) ==
    LET id == AUTOINCREMENT(sqlite_sequence.genomes,
                            {r.genome_id : r \in genomes})
        kept == {r \in genomes : ~(SqlEq(r.hash, hash) /\ SqlEq(r.path, path))}
    IN  [ok |-> TRUE,
         rows |-> kept \cup {[genome_id |-> id, hash |-> hash,
                              path |-> path, description |-> desc]},
         seq |-> id,
         lastrowid |-> id]

(* INSERT INTO genomes (hash, path, description) VALUES (?, ?, ?): a row that
   fails the unique index aborts the statement, which changes nothing *)
SQL_ADDGENOME(hash, path, desc) ==
    LET id == AUTOINCREMENT(sqlite_sequence.genomes,
                            {r.genome_id : r \in genomes})
    IN  IF genomehashpath_index(genomes, hash, path)
        THEN [ok |-> TRUE,
              rows |-> genomes \cup {[genome_id |-> id, hash |-> hash,
                                      path |-> path, description |-> desc]},
              seq |-> id,
              lastrowid |-> id]
        ELSE [ok |-> FALSE, rows |-> genomes,
              seq |-> sqlite_sequence.genomes, lastrowid |-> 0]

(* INSERT INTO runs_genomes (run_id, genome_id) VALUES (?, ?).  The table's
   primary key is not its row id: SQLite gives the row one more than the
   largest row id of the table *)
SQL_ADDRUNGENOME(run_id, genome_id) ==
    LET id == Max({0} \cup {r.rowid : r \in runs_genomes}) + 1
    IN  IF /\ runs_genomes_pk(runs_genomes, run_id, genome_id)
           /\ runs_genomes_fk(run_id, genome_id)
        THEN [ok |-> TRUE,
              rows |-> runs_genomes \cup {[rowid |-> id, run_id |-> run_id,
                                           genome_id |-> genome_id]},
              lastrowid |-> id]
        ELSE [ok |-> FALSE, rows |-> runs_genomes, lastrowid |-> 0]

(* SELECT * FROM genomes WHERE hash=? *)
SQL_GETGENOMEHASH(hash) ==
    RowsById({r \in genomes : SqlEq(r.hash, hash)})

(* SELECT path FROM genomes WHERE genome_id=? *)
SQL_GETGENOMEPATH(genome_id) ==
    {r \in genomes : r.genome_id = genome_id}

(* SELECT * FROM genomes WHERE hash=? AND path=? *)
SQL_GETGENOMEHASHPATH(hash, path) ==
    RowsById({r \in genomes : SqlEq(r.hash, hash) /\ SqlEq(r.path, path)})

(* SELECT genome_id FROM runs_genomes WHERE run_id=?, read off the primary
   key's index *)
SQL_GETGENOMESBYRUN(run_id) ==
    IndexScan({r \in runs_genomes : r.run_id = run_id})

(* SELECT * FROM comparisons WHERE query_id=? AND subject_id=? AND program=?
   AND version=? AND fragsize=? AND maxmatch=? *)
SQL_GETCOMPARISON(query_id, subject_id, program, version, fragsize, maxmatch) ==
    {r \in comparisons :
        /\ r.query_id = query_id
        /\ r.subject_id = subject_id
        /\ SqlEq(r.program, program)
        /\ SqlEq(r.version, version)
        /\ SqlEq(r.fragsize, fragsize)
        /\ SqlEq(r.maxmatch, maxmatch)}

---------------------------------------------------------------------------
(* The functions of pyani_db.py *)

(* The store after create_db on a new path *)
Init ==
    /\ genomes = {}
    /\ runs = {}
    /\ runs_genomes = {}
    /\ comparisons = {}
    /\ sqlite_sequence = [genomes |-> 0, runs |-> 0]
    /\ lastOp = [op |-> "create_db", dropped |-> 0]
    /\ result = ReturnedNone
    /\ associated = {}
    /\ issued = <<>>

(* lastOp.dropped is history: the number of rows the call destroyed *)
create_db ==
    /\ genomes' = SQL_CREATEDB.genomes
    /\ runs' = SQL_CREATEDB.runs
    /\ runs_genomes' = SQL_CREATEDB.runs_genomes
    /\ comparisons' = SQL_CREATEDB.comparisons
    /\ sqlite_sequence' = SQL_CREATEDB.sqlite_sequence
    /\ lastOp' = [op |-> "create_db",
                  dropped |-> Cardinality(genomes) + Cardinality(runs)
                              + Cardinality(runs_genomes)
                              + Cardinality(comparisons)]
    /\ result' = ReturnedNone
    /\ associated' = {}
    /\ issued' = <<>>

add_run(method, cmdline, date, status) ==
    /\ sqlite_sequence.runs < MaxRuns
    /\ LET st == SQL_ADDRUN(method, cmdline, date, status)
       IN  /\ runs' = st.rows
           /\ sqlite_sequence' = [sqlite_sequence EXCEPT !.runs = st.seq]
           /\ result' = Returned(st.lastrowid)
    /\ lastOp' = [op |-> "add_run", method |-> method, cmdline |-> cmdline,
                  date |-> date, status |-> status]
    /\ UNCHANGED <<genomes, runs_genomes, comparisons, associated, issued>>

add_genome(hash, filepath, desc) ==
    /\ sqlite_sequence.genomes < MaxGenomes
    /\ LET st == SQL_ADDGENOME(hash, filepath, desc)
       IN  /\ genomes' = st.rows
           /\ sqlite_sequence' = [sqlite_sequence EXCEPT !.genomes = st.seq]
           /\ result' = IF st.ok THEN Returned(st.lastrowid)
                                 ELSE Raised("IntegrityError")
           /\ issued' = IF st.ok THEN Append(issued, st.lastrowid) ELSE issued
    /\ lastOp' = [op |-> "add_genome", hash |-> hash, path |-> filepath,
                  desc |-> desc]
    /\ UNCHANGED <<runs, runs_genomes, comparisons, associated>>

add_genome_to_run(run_id, genome_id) ==
    /\ Cardinality(runs_genomes) < MaxAssociations
    /\ LET st == SQL_ADDRUNGENOME(run_id, genome_id)
       IN  /\ runs_genomes' = st.rows
           /\ result' = IF st.ok THEN Returned(st.lastrowid)
                                 ELSE Raised("IntegrityError")
           /\ associated' = IF st.ok
                            THEN associated \cup {<<run_id, genome_id>>}
                            ELSE associated
    /\ lastOp' = [op |-> "add_genome_to_run", run_id |-> run_id,
                  genome_id |-> genome_id]
    /\ UNCHANGED <<genomes, runs, comparisons, sqlite_sequence, issued>>

(* Mutant: the path is ignored *)
get_genome_fetchall_by_hash(hash, path) == SQL_GETGENOMEHASH(hash)

(* What get_genome fetches; path is None when the caller leaves it out *)
get_genome_fetchall(hash, path) ==
    IF path = None THEN SQL_GETGENOMEHASH(hash)
    ELSE SQL_GETGENOMEHASHPATH(hash, path)

get_genome(hash, path) ==
    /\ result' = Returned(get_genome_fetchall(hash, path))
    /\ lastOp' = [op |-> "get_genome", hash |-> hash, path |-> path]
    /\ UNCHANGED <<tables, sqlite_sequence, associated, issued>>

(* fetchone() is None when no row has the id, and result[0] then raises *)
get_genome_path(genome_id) ==
    /\ LET found == SQL_GETGENOMEPATH(genome_id)
       IN  result' = IF found = {} THEN Raised("TypeError")
                     ELSE Returned((CHOOSE r \in found : TRUE).path)
    /\ lastOp' = [op |-> "get_genome_path", genome_id |-> genome_id]
    /\ UNCHANGED <<tables, sqlite_sequence, associated, issued>>

get_genome_ids_by_run(run_id) ==
    /\ result' = Returned(SQL_GETGENOMESBYRUN(run_id))
    /\ lastOp' = [op |-> "get_genome_ids_by_run", run_id |-> run_id]
    /\ UNCHANGED <<tables, sqlite_sequence, associated, issued>>

(* fetchone(): the matching row, or None *)
get_comparison(subj_id, targ_id, program, version, fragsize, maxmatch) ==
    /\ LET found == SQL_GETCOMPARISON(subj_id, targ_id, program, version,
                                      fragsize, maxmatch)
       IN  result' = IF found = {} THEN ReturnedNone
                     ELSE Returned(CHOOSE r \in found : TRUE)
    /\ lastOp' = [op |-> "get_comparison", query_id |-> subj_id,
                  subject_id |-> targ_id, program |-> program,
                  version |-> version, fragsize |-> fragsize,
                  maxmatch |-> maxmatch]
    /\ UNCHANGED <<tables, sqlite_sequence, associated, issued>>

(* The insert of one comparison row, a single INSERT under "with conn:" like
   add_genome; the comparisons table's constraints decide whether it is
   accepted *)
add_comparison(query_id, subject_id, program, version, fragsize, maxmatch) ==
    /\ Cardinality(comparisons) < MaxComparisons
    /\ IF comparisons_pk(comparisons, query_id, subject_id)
       THEN /\ comparisons' = comparisons \cup
                   {[query_id |-> query_id, subject_id |-> subject_id,
                     program |-> program, version |-> version,
                     fragsize |-> fragsize, maxmatch |-> maxmatch]}
            /\ result' = Returned(Cardinality(comparisons) + 1)
       ELSE /\ comparisons' = comparisons
            /\ result' = Raised("IntegrityError")
    /\ lastOp' = [op |-> "add_comparison", query_id |-> query_id,
                  subject_id |-> subject_id, program |-> program,
                  version |-> version, fragsize |-> fragsize,
                  maxmatch |-> maxmatch]
    /\ UNCHANGED <<genomes, runs, runs_genomes, sqlite_sequence,
                   associated, issued>>

---------------------------------------------------------------------------
(* Specifications *)

(* Genome operations *)
NextGenomes ==
    \/ create_db
    \/ \E h \in Hashes, p \in Paths, d \in Descriptions : add_genome(h, p, d)
    \/ \E h \in Hashes, p \in Paths \cup {None} : get_genome(h, p)
    \/ \E g \in GenomeIds : get_genome_path(g)

SpecGenomes == Init /\ [][NextGenomes]_vars

(* Runs and their genomes *)
NextRuns ==
    \/ create_db
    \/ \E m \in Methods, c \in Cmdlines, d \in Dates, s \in Statuses :
          add_run(m, c, d, s)
    \/ \E p \in Paths : add_genome("abc123", p, "genome one")
    \/ \E r \in RunIds, g \in GenomeIds : add_genome_to_run(r, g)
    \/ \E r \in RunIds : get_genome_ids_by_run(r)

SpecRuns == Init /\ [][NextRuns]_vars

(* Comparisons *)
NextComparisons ==
    \/ create_db
    \/ \E q \in QueryIds, s \in SubjectIds, p \in Programs, v \in Versions,
          f \in Fragsizes, m \in Maxmatches : add_comparison(q, s, p, v, f, m)
    \/ \E q \in QueryIds, s \in SubjectIds, p \in Programs, v \in Versions,
          f \in Fragsizes, m \in Maxmatches : get_comparison(q, s, p, v, f, m)

SpecComparisons == Init /\ [][NextComparisons]_vars

(* Every operation *)
Next ==
    \/ create_db
    \/ add_run("ANIm", "pyani anim", "2017-01-01", "started")
    \/ \E p \in Paths : add_genome("abc123", p, "genome one")
    \/ \E g \in GenomeIds : add_genome_to_run(1, g)
    \/ \E p \in Paths \cup {None} : get_genome("abc123", p)
    \/ \E g \in GenomeIds : get_genome_path(g)
    \/ \E r \in RunIds : get_genome_ids_by_run(r)
    \/ \E f \in {None, "500"} : add_comparison(1, 2, "nucmer", "3.1", f, None)
    \/ \E f \in {None, "500"} : get_comparison(1, 2, "nucmer", "3.1", f, None)

Spec == Init /\ [][Next]_vars

---------------------------------------------------------------------------
(* Properties *)

Inserts == {"add_run", "add_genome", "add_genome_to_run", "add_comparison"}
Lookups == {"get_genome", "get_genome_path", "get_genome_ids_by_run",
            "get_comparison"}

RunExists(run_id) == \E r \in runs : r.run_id = run_id
GenomeExists(genome_id) == \E g \in genomes : g.genome_id = genome_id

(* The stored comparisons with these ids, program and version *)
SamePair(query_id, subject_id, program, version) ==
    {r \in comparisons : /\ r.query_id = query_id
                         /\ r.subject_id = subject_id
                         /\ r.program = program
                         /\ r.version = version}

(* C1: two comparisons that differ only in fragsize can both be stored (the
   second insert is not a constraint violation), and get_comparison called
   with a fragsize returns only a row stored under that fragsize.  The
   comparisons table's primary key is (query_id, subject_id), so the second
   insert is rejected. *)
C1_KeyDiscrimination ==
    /\ (/\ lastOp.op = "add_comparison"
        /\ \E r \in SamePair(lastOp.query_id, lastOp.subject_id,
                             lastOp.program, lastOp.version) :
              r.fragsize # lastOp.fragsize /\ r.maxmatch = lastOp.maxmatch)
       => result.status = "returned"
    /\ (lastOp.op = "get_comparison" /\ ~result.none)
       => result.value.fragsize = lastOp.fragsize

(* C2: get_comparison with fragsize and maxmatch left unset returns the stored
   row of its ids, program and version whose fragsize and maxmatch are unset,
   and never a row whose fragsize or maxmatch is set.  "fragsize = NULL" is
   never true in SQL, so the lookup returns None although the row is stored. *)
C2_UnsetMatchesUnset ==
    (/\ lastOp.op = "get_comparison"
     /\ lastOp.fragsize = None
     /\ lastOp.maxmatch = None)
    => /\ \A r \in SamePair(lastOp.query_id, lastOp.subject_id,
                            lastOp.program, lastOp.version) :
             (r.fragsize = None /\ r.maxmatch = None)
             => (~result.none /\ result.value = r)
       /\ ~result.none
          => (result.value.fragsize = None /\ result.value.maxmatch = None)

(* C3: no two rows of genomes have the same (hash, path); add_genome with a
   (hash, path) already present raises IntegrityError and adds nothing, and
   with any other (hash, path), a present hash or a present path included, it
   returns and adds one row. *)
C3_GenomeUniqueness ==
    /\ [](\A a, b \in genomes :
             (a.hash = b.hash /\ a.path = b.path) => a = b)
    /\ [][lastOp'.op = "add_genome" =>
            IF \E r \in genomes :
                  r.hash = lastOp'.hash /\ r.path = lastOp'.path
            THEN result'.status = "IntegrityError" /\ genomes' = genomes
            ELSE /\ result'.status = "returned"
                 /\ genomes \subseteq genomes'
                 /\ Cardinality(genomes') = Cardinality(genomes) + 1
                 /\ \E r \in genomes' \ genomes :
                       r.hash = lastOp'.hash /\ r.path = lastOp'.path
         ]_vars

(* C3 witness: a duplicate (hash, path) is rejected while the hash is stored
   under two paths *)
C3_Witness ==
    /\ lastOp.op = "add_genome"
    /\ result.status = "IntegrityError"
    /\ \E a, b \in genomes : a.hash = lastOp.hash /\ b.hash = lastOp.hash
                             /\ a.path # b.path

(* C4: add_genome_to_run raises IntegrityError when run_id is not the id of a
   runs row or genome_id is not the id of a genomes row, so that every
   runs_genomes row references an existing run and an existing genome.  The
   connection never enables foreign keys, so the insert is accepted. *)
C4_ReferentialIntegrity ==
    /\ \A a \in runs_genomes : RunExists(a.run_id) /\ GenomeExists(a.genome_id)
    /\ (/\ lastOp.op = "add_genome_to_run"
        /\ ~(RunExists(lastOp.run_id) /\ GenomeExists(lastOp.genome_id)))
       => result.status = "IntegrityError"

(* C5: each (run_id, genome_id) occurs at most once in runs_genomes, and
   add_genome_to_run with a pair already associated raises IntegrityError to
   its caller and leaves runs_genomes unchanged. *)
C5_AssociationUniqueness ==
    /\ [](\A a, b \in runs_genomes :
             (a.run_id = b.run_id /\ a.genome_id = b.genome_id) => a = b)
    /\ [][(/\ lastOp'.op = "add_genome_to_run"
           /\ \E a \in runs_genomes : /\ a.run_id = lastOp'.run_id
                                      /\ a.genome_id = lastOp'.genome_id)
          => (result'.status = "IntegrityError"
              /\ runs_genomes' = runs_genomes)
         ]_vars

(* C5 witness: a second association of a pair is rejected next to another
   association of the same run *)
C5_Witness ==
    /\ lastOp.op = "add_genome_to_run"
    /\ result.status = "IntegrityError"
    /\ \E a, b \in runs_genomes : /\ a.run_id = lastOp.run_id
                                  /\ a.genome_id = lastOp.genome_id
                                  /\ b.run_id = lastOp.run_id
                                  /\ b.genome_id # lastOp.genome_id

(* C6: right after add_genome(h, p, d) returned g, get_genome(h, p) fetches
   exactly one row, and it is (g, h, p, d). *)
C6_GenomeRoundTrip ==
    (lastOp.op = "add_genome" /\ result.status = "returned")
    => get_genome_fetchall(lastOp.hash, lastOp.path)
       = <<[genome_id |-> result.value, hash |-> lastOp.hash,
            path |-> lastOp.path, description |-> lastOp.desc]>>

(* C6 witness: add_genome returned while the same hash is stored under another
   path and the same path under another hash *)
C6_Witness ==
    /\ lastOp.op = "add_genome"
    /\ result.status = "returned"
    /\ \E r \in genomes : r.hash = lastOp.hash /\ r.path # lastOp.path
    /\ \E r \in genomes : r.hash # lastOp.hash /\ r.path = lastOp.path

(* The genome ids of a returned list *)
Elements(ids) == {ids[i] : i \in 1..Len(ids)}

(* get_genome_ids_by_run(r) returns, without duplicates, exactly the genome
   ids whose association with r has succeeded since the last create_db *)
ExactlyAssociated ==
    lastOp.op = "get_genome_ids_by_run"
    => /\ result.status = "returned"
       /\ Elements(result.value)
          = {a[2] : a \in {x \in associated : x[1] = lastOp.run_id}}
       /\ Len(result.value) = Cardinality(Elements(result.value))

(* C7: get_genome_ids_by_run(r) returns, as a set and without duplicates,
   exactly the genome ids g for which add_genome_to_run(r, g) has succeeded
   since the last create_db, and the empty list when r has no associations or
   does not exist.  A run that does not exist can have associations (C4), and
   the list is then not empty. *)
C7_AssociationCompleteness ==
    /\ ExactlyAssociated
    /\ (lastOp.op = "get_genome_ids_by_run" /\ ~RunExists(lastOp.run_id))
       => result.value = <<>>

(* C8: create_db leaves the four tables empty and the id counters reset,
   whatever they held, and the first add_genome and the first add_run after
   it return 1. *)
C8_CreateDbResets ==
    /\ lastOp.op = "create_db"
       => /\ genomes = {} /\ runs = {} /\ runs_genomes = {}
          /\ comparisons = {}
          /\ sqlite_sequence = [genomes |-> 0, runs |-> 0]
    /\ (lastOp.op = "add_genome" /\ result.status = "returned"
        /\ Len(issued) = 1)
       => (result.value = 1 /\ \A r \in genomes : r.genome_id = 1)
    /\ (lastOp.op = "add_run" /\ Cardinality(runs) = 1)
       => (result.value = 1 /\ \A r \in runs : r.run_id = 1)

(* C8 witness: create_db has destroyed rows *)
C8_Witness ==
    lastOp.op = "create_db" /\ lastOp.dropped >= 3

(* C9: an insert that raises leaves the tables and the id counters as they
   were, and the ids add_genome has returned since create_db are 1, 2, 3, ...
   in call order. *)
C9_NoPartialResults ==
    /\ [][(lastOp'.op \in Inserts /\ result'.status # "returned")
          => (tables' = tables /\ sqlite_sequence' = sqlite_sequence)
         ]_vars
    /\ [](issued = [i \in 1..Len(issued) |-> i])

(* C9 witness: a duplicate genome is rejected between two that are accepted *)
C9_Witness ==
    /\ lastOp.op = "add_genome"
    /\ result.status = "IntegrityError"
    /\ issued = <<1>>
    /\ sqlite_sequence.genomes = 1

(* C10: without create_db no row is removed or changed, a lookup changes no
   table, and an insert that returns adds one row to its own table and
   changes no other. *)
C10_AppendOnly ==
    [][lastOp'.op # "create_db" =>
         /\ genomes \subseteq genomes'
         /\ runs \subseteq runs'
         /\ runs_genomes \subseteq runs_genomes'
         /\ comparisons \subseteq comparisons'
         /\ lastOp'.op \in Lookups => tables' = tables
         /\ (lastOp'.op = "add_genome" /\ result'.status = "returned")
            => /\ Cardinality(genomes') = Cardinality(genomes) + 1
               /\ UNCHANGED <<runs, runs_genomes, comparisons>>
         /\ (lastOp'.op = "add_run" /\ result'.status = "returned")
            => /\ Cardinality(runs') = Cardinality(runs) + 1
               /\ UNCHANGED <<genomes, runs_genomes, comparisons>>
         /\ (lastOp'.op = "add_genome_to_run" /\ result'.status = "returned")
            => /\ Cardinality(runs_genomes') = Cardinality(runs_genomes) + 1
               /\ UNCHANGED <<genomes, runs, comparisons>>
         /\ (lastOp'.op = "add_comparison" /\ result'.status = "returned")
            => /\ Cardinality(comparisons') = Cardinality(comparisons) + 1
               /\ UNCHANGED <<genomes, runs, runs_genomes>>
     ]_vars

(* C10 witness: an insert returned with rows in all four tables *)
C10_Witness ==
    /\ lastOp.op = "add_genome_to_run"
    /\ result.status = "returned"
    /\ genomes # {} /\ runs # {} /\ comparisons # {}
    /\ Cardinality(runs_genomes) >= 2

====
